---- MODULE Spec2Model ----
(***************************************************************************)
(* Model of selfdrive/controls/lib/events.py: the Events tracker (active   *)
(* list, static list, consecutive-tick counters), the EVENTS catalog and   *)
(* the alert arbitration of Events.create_alerts.                          *)
(*                                                                         *)
(* Times are integers in milliseconds: DT_CTRL = 0.01 s is 10, and a       *)
(* creation_delay of 0.5 s is 500.  For every catalog delay the float      *)
(* comparison of line 80 agrees with the integer comparison used here.     *)
(***************************************************************************)
EXTENDS Integers, Sequences, FiniteSets, TLC

\* ---------------------------------------------------------------- bounds
\* longest events list the model lets the tracker grow to
MaxLen == 2
\* most rules in one inner dict display of a catalog literal
MaxRules == 2
\* longest static_events list
MaxStatic == 1
\* largest counter value at which clear() is still taken
MaxTicks == 2
\* largest counter value at which clear() is still taken in SpecDelay
MaxLongTicks == 51
\* most records in one incoming message
MaxMsg == 1

\* ------------------------------------------------------- enums, constants
LOWEST == 0
LOWER == 1
LOW == 2
MID == 3
HIGH == 4
HIGHEST == 5

Priority == {LOWEST, LOWER, LOW, MID, HIGH, HIGHEST}

ENABLE == "enable"
PRE_ENABLE == "preEnable"
NO_ENTRY == "noEntry"
WARNING == "warning"
USER_DISABLE == "userDisable"
SOFT_DISABLE == "softDisable"
IMMEDIATE_DISABLE == "immediateDisable"
PERMANENT == "permanent"

ET == {ENABLE, PRE_ENABLE, NO_ENTRY, WARNING, USER_DISABLE, SOFT_DISABLE,
       IMMEDIATE_DISABLE, PERMANENT}

\* control period in ms (from common.realtime import DT_CTRL)
DT_CTRL == 10

None == "None"

\* ------------------------------------------------------------------ Alert
\* Alert.__init__: the fields the tracker reads (alert_priority,
\* creation_delay) and writes (alert_type, event_type); texts, sounds and
\* durations are opaque to the engine and are left out.
Alert(alert_priority, creation_delay) ==
  [alert_priority |-> alert_priority,
   creation_delay |-> creation_delay,
   alert_type |-> "",
   event_type |-> None]

\* __gt__ that also holds between equal priorities
Alert_ge(alert, alert2) == alert.alert_priority >= alert2.alert_priority

\* __gt__ with the comparison turned round
Alert_lt(alert, alert2) == alert.alert_priority < alert2.alert_priority

\* Alert.__gt__
Alert_gt(alert, alert2) == alert.alert_priority > alert2.alert_priority

\* max(alerts) as the caller of create_alerts takes it: the first alert that
\* no later one is greater than
max_alert(alerts) ==
  LET best[n \in 1..Len(alerts)] ==
        IF n = 1 THEN alerts[1]
        ELSE IF Alert_gt(alerts[n], best[n - 1]) THEN alerts[n]
             ELSE best[n - 1]
  IN best[Len(alerts)]

NoEntryAlert == Alert(LOW, 0)

SoftDisableAlert == Alert(MID, 0)

EngagementAlert == Alert(MID, 0)

\* a catalog slot holding an Alert instance
Static(alert) == [kind |-> "Alert", alert |-> alert]

\* a catalog slot holding a callback (CP, sm, metric) -> Alert
Callback(fn) == [kind |-> "callable", fn |-> fn]

\* wrong_car_mode_alert(CP, sm, metric): a NoEntryAlert, built on each call;
\* calling it with another number of arguments raises TypeError.
wrong_car_mode_alert(callback_args) ==
  IF Len(callback_args) = 3
  THEN [raised |-> FALSE, alert |-> NoEntryAlert]
  ELSE [raised |-> TRUE, alert |-> NoEntryAlert]

\* alert(*callback_args) for the callbacks of the catalog
Call(fn, callback_args) ==
  CASE fn = "wrong_car_mode_alert" -> wrong_car_mode_alert(callback_args)

\* ---------------------------------------------------------------- catalog
\* The entries of EVENTS the model keeps: wrongCarMode (a static rule and a
\* callback rule), reverseGear (a rule delayed by 0.5 s next to two
\* undelayed ones), and preDriverDistracted and driverDistracted (warning
\* rules of priority LOW and HIGH).
EVENTS ==
  ("preDriverDistracted" :> (WARNING :> Static(Alert(LOW, 0)))) @@
  ("driverDistracted" :> (WARNING :> Static(Alert(HIGH, 0)))) @@
  ("wrongCarMode" :> (USER_DISABLE :> Static(EngagementAlert) @@
                      NO_ENTRY :> Callback("wrong_car_mode_alert"))) @@
  ("reverseGear" :> (PERMANENT :> Static(Alert(LOWEST, 500)) @@
                     SOFT_DISABLE :> Static(SoftDisableAlert) @@
                     NO_ENTRY :> Static(NoEntryAlert)))

\* one inner dict display {ET.x: alert, ...}: a later rule for an event type
\* replaces an earlier one
load_rules(rules) ==
  LET built[n \in 0..Len(rules)] ==
        IF n = 0 THEN <<>>
        ELSE (rules[n].event_type :> rules[n].alert) @@ built[n - 1]
  IN built[Len(rules)]

\* the dict display EVENTS = {EventName.x: {...}, ...} evaluated at import:
\* a later entry for an event replaces an earlier one, and nothing is raised
load_events(literal) ==
  LET built[n \in 0..Len(literal)] ==
        IF n = 0 THEN <<>>
        ELSE (literal[n].event :> load_rules(literal[n].rules)) @@ built[n - 1]
  IN [raised |-> FALSE, catalog |-> built[Len(literal)]]

\* EventName: the enumerants the model knows; noAlertEvent stands for an
\* enumerant of car.CarEvent.EventName that EVENTS has no key for.
EventName == (DOMAIN EVENTS) \cup {"noAlertEvent"}

\* EVENT_NAME: enumerant -> its name
EVENT_NAME == [e \in EventName |-> e]

\* EVENTS.get(e, {})
EVENTS_get(e) == IF e \in DOMAIN EVENTS THEN EVENTS[e] ELSE <<>>

Range(s) == {s[i] : i \in 1..Len(s)}

\* ------------------------------------------------------------ operations
\* clear() that keeps the counter of an event that was not active
clear_events_prev_keep(prev, evs) ==
  [k \in DOMAIN prev |-> IF k \in Range(evs) THEN prev[k] + 1 ELSE prev[k]]

\* clear() that counts every entry of the list, not every event
clear_events_prev_each(prev, evs) ==
  [k \in DOMAIN prev |->
     IF k \in Range(evs)
     THEN prev[k] + Cardinality({i \in 1..Len(evs) : evs[i] = k})
     ELSE 0]

\* the counters computed by Events.clear (line 58)
clear_events_prev(prev, evs) ==
  [k \in DOMAIN prev |-> IF k \in Range(evs) THEN prev[k] + 1 ELSE 0]

\* clear() that empties the list
clear_events_empty(static) == <<>>

\* the events list left by Events.clear (line 59)
clear_events(static) == static

\* any() that counts only the rules held as an Alert, not the callbacks
any_static_rule(evs, event_type) ==
  \E i \in 1..Len(evs) :
    /\ event_type \in DOMAIN EVENTS_get(evs[i])
    /\ EVENTS_get(evs[i])[event_type].kind = "Alert"

\* any() that returns on the first entry, whatever it finds
any_first(evs, event_type) ==
  Len(evs) >= 1 /\ event_type \in DOMAIN EVENTS_get(evs[1])

\* Events.any
any(evs, event_type) ==
  \E i \in 1..Len(evs) : event_type \in DOMAIN EVENTS_get(evs[i])

\* line 80 with the comparison turned round
arms_inverted(prev_e, alert) ==
  DT_CTRL * (prev_e + 1) <= alert.creation_delay

\* line 80 counting one tick too many
arms_early(prev_e, alert) ==
  DT_CTRL * (prev_e + 2) >= alert.creation_delay

\* line 80: the event has been active long enough for the alert
arms(prev_e, alert) ==
  DT_CTRL * (prev_e + 1) >= alert.creation_delay

\* lines 76-78: the slot's Alert, or the Alert its callback returns
make_alert(slot, callback_args) ==
  IF slot.kind = "Alert"
  THEN [raised |-> FALSE, alert |-> slot.alert]
  ELSE Call(slot.fn, callback_args)

\* lines 81-82 writing alert_type only
tag_alert_type_only(alert, e, et) ==
  [alert EXCEPT !.alert_type = EVENT_NAME[e] \o "/" \o et]

\* lines 81-82: the alert with its derived fields written
tag_alert(alert, e, et) ==
  [alert EXCEPT !.alert_type = EVENT_NAME[e] \o "/" \o et,
                !.event_type = et]

\* lines 81-82 as a write to an object: the catalog slot whose Alert it is
\* (kind "Alert": the one object the catalog holds; kind "callable": the
\* object the callback built for this call) and the Alert as written
Write(e, et, alert) ==
  [slot |-> <<e, et>>, kind |-> EVENTS[e][et].kind,
   alert |-> tag_alert(alert, e, et)]

\* lines 74-83 for one event e, from the j-th requested event type on: the
\* alerts appended and the writes of lines 81-82 made on the way, which stay
\* made when a later callback raises
RECURSIVE alerts_of_event(_, _, _, _, _)
alerts_of_event(e, prev, event_types, callback_args, j) ==
  IF j > Len(event_types)
  THEN [raised |-> FALSE, val |-> <<>>, writes |-> <<>>]
  ELSE LET et == event_types[j]
       IN IF et \notin DOMAIN EVENTS[e]
          THEN alerts_of_event(e, prev, event_types, callback_args, j + 1)
          ELSE LET made == make_alert(EVENTS[e][et], callback_args)
               IN IF made.raised
                  THEN [raised |-> TRUE, val |-> <<>>, writes |-> <<>>]
                  ELSE LET rest == alerts_of_event(e, prev, event_types,
                                                   callback_args, j + 1)
                           w == Write(e, et, made.alert)
                       IN IF arms(prev[e], made.alert)
                          THEN [raised |-> rest.raised,
                                val |-> IF rest.raised THEN <<>>
                                        ELSE <<w.alert>> \o rest.val,
                                writes |-> <<w>> \o rest.writes]
                          ELSE rest

\* lines 72-84 from the i-th entry of events on; EVENTS[e] of line 73 raises
\* KeyError for an e the catalog has no key for, and an exception leaves the
\* caller without a list.
RECURSIVE alerts_from(_, _, _, _, _)
alerts_from(evs, prev, event_types, callback_args, i) ==
  IF i > Len(evs)
  THEN [raised |-> FALSE, val |-> <<>>, writes |-> <<>>]
  ELSE IF evs[i] \notin DOMAIN EVENTS
       THEN [raised |-> TRUE, val |-> <<>>, writes |-> <<>>]
       ELSE LET mine == alerts_of_event(evs[i], prev, event_types,
                                        callback_args, 1)
            IN IF mine.raised
               THEN [raised |-> TRUE, val |-> <<>>, writes |-> mine.writes]
               ELSE LET rest == alerts_from(evs, prev, event_types,
                                            callback_args, i + 1)
                    IN [raised |-> rest.raised,
                        val |-> IF rest.raised THEN <<>>
                                ELSE mine.val \o rest.val,
                        writes |-> mine.writes \o rest.writes]

\* Events.create_alerts
create_alerts(evs, prev, event_types, callback_args) ==
  alerts_from(evs, prev, event_types, callback_args, 1)

\* car.CarEvent.new_message() with its name set and one flag per rule
CarEvent(event_name, types) ==
  [name |-> event_name, flags |-> [c \in ET |-> c \in types]]

\* to_msg() that skips the events the catalog has no key for
to_msg_known(evs) ==
  LET known == SelectSeq(evs, LAMBDA e : e \in DOMAIN EVENTS)
  IN [i \in 1..Len(known) |-> CarEvent(known[i], DOMAIN EVENTS[known[i]])]

\* to_msg() that emits one record per distinct event
to_msg_distinct(evs) ==
  LET firsts == {i \in 1..Len(evs) : \A j \in 1..(i - 1) : evs[j] # evs[i]}
      pick[n \in 0..Len(evs)] ==
        IF n = 0 THEN <<>>
        ELSE IF n \in firsts THEN Append(pick[n - 1], evs[n]) ELSE pick[n - 1]
      once == pick[Len(evs)]
  IN [i \in 1..Len(once) |-> CarEvent(once[i], DOMAIN EVENTS_get(once[i]))]

\* Events.to_msg
to_msg(evs) ==
  [i \in 1..Len(evs) |-> CarEvent(evs[i], DOMAIN EVENTS_get(evs[i]))]

\* add_from_msg() that takes only the records with a flag set
add_from_msg_flagged(evs, msg) ==
  LET flagged == SelectSeq(msg, LAMBDA r : \E c \in ET : r.flags[c])
  IN evs \o [i \in 1..Len(flagged) |-> flagged[i].name]

\* Events.add_from_msg: the list after appending each record's name.raw
add_from_msg(evs, msg) ==
  evs \o [i \in 1..Len(msg) |-> msg[i].name]

\* ----------------------------------------------------------------- inputs
\* the events the producers of Spec report
Reported == {"wrongCarMode", "reverseGear", "noAlertEvent"}

\* the event types the controller asks about: those the reported events have
\* rules for, and one (warning) they have none for
EventTypes == {NO_ENTRY, USER_DISABLE, SOFT_DISABLE, PERMANENT, WARNING}

\* the event-type lists create_alerts is called with
EventTypeLists ==
  {<<c>> : c \in EventTypes} \cup {<<PERMANENT, NO_ENTRY>>}

\* the events the producers of SpecPrio report
Distracted == {"preDriverDistracted", "driverDistracted", "noAlertEvent"}

\* the alerts SpecGt compares: one per priority, and one more of priority LOW
\* that differs in another field
AlertsCompared == {Alert(p, 0) : p \in Priority} \cup {Alert(LOW, 500)}

\* the rules a catalog literal is written with
LiteralRules ==
  [event_type : {NO_ENTRY, PERMANENT},
   alert : {NoEntryAlert, Alert(LOWEST, 500)}]

\* the entries EventName.x: {...} of a catalog literal
LiteralEntries ==
  [event : {"wrongCarMode", "reverseGear"},
   rules : UNION {[1..n -> LiteralRules] : n \in 1..MaxRules}]

\* catalog literals of one or two entries
Literals ==
  {<<b>> : b \in LiteralEntries} \cup
  {<<b1, b2>> : b1 \in LiteralEntries, b2 \in LiteralEntries}

\* callback_args: the default (None, hence []) and [CP, sm, metric]
CallbackArgs == {<<>>, <<"CP", "sm", "metric">>}

\* records a peer process can send: flags as its catalog sets them, or none
CarEvents ==
  {CarEvent(e, DOMAIN EVENTS_get(e)) : e \in Reported} \cup
  {CarEvent(e, {}) : e \in Reported}

Msgs == UNION {[1..n -> CarEvents] : n \in 0..MaxMsg}

\* ------------------------------------------------------------------ state
VARIABLES
  events,          \* Events.events
  static_events,   \* Events.static_events
  events_prev,     \* Events.events_prev
  ret,             \* the last call made on the tracker and what it returned
  latched,         \* history: events ever added with static=True
  asserted,        \* history: events asserted since the last clear
  nonsticky,       \* history: events asserted non-static since the last clear
  prev_nonsticky,  \* history: nonsticky of the tick before, less the events
                   \* this tick has asserted
  lapsed,          \* history: prev_nonsticky at the last clear, until the
                   \* next tick asserts an event
  streak,          \* history: consecutive asserted ticks from a counter of 0
  run              \* history: consecutive clears that found the event active

vars == <<events, static_events, events_prev, ret, latched, asserted,
          nonsticky, prev_nonsticky, lapsed, streak, run>>

tracker == <<events, static_events, events_prev>>

history == <<latched, asserted, nonsticky, prev_nonsticky, lapsed, streak,
             run>>

\* Events.__init__
Init ==
  /\ events = <<>>
  /\ static_events = <<>>
  /\ events_prev = [k \in DOMAIN EVENTS |-> 0]
  /\ ret = [op |-> "__init__"]
  /\ latched = {}
  /\ asserted = {}
  /\ nonsticky = {}
  /\ prev_nonsticky = {}
  /\ lapsed = {}
  /\ streak = [e \in EventName |-> 0]
  /\ run = [e \in DOMAIN EVENTS |-> 0]

\* the counter of e, for an e that has one
Counter(e) == IF e \in DOMAIN events_prev THEN events_prev[e] ELSE 0

\* history update for the events in names being asserted in this tick
Asserting(names) ==
  /\ asserted' = asserted \cup names
  /\ streak' = [e \in EventName |->
                  IF e \in names /\ e \notin asserted
                  THEN IF streak[e] > 0 THEN streak[e] + 1
                       ELSE IF e \in DOMAIN events_prev /\ events_prev[e] = 0
                            THEN 1 ELSE 0
                  ELSE streak[e]]

\* add() that files a static event in static_events only
add_static_only(event_name, static) ==
  /\ Len(events) < MaxLen
  /\ static => Len(static_events) < MaxStatic
  /\ static_events' = IF static THEN Append(static_events, event_name)
                                ELSE static_events
  /\ events' = IF static THEN events ELSE Append(events, event_name)
  /\ ret' = [op |-> "add"]
  /\ latched' = IF static THEN latched \cup {event_name} ELSE latched
  /\ nonsticky' = IF static THEN nonsticky ELSE nonsticky \cup {event_name}
  /\ Asserting({event_name})
  /\ lapsed' = {}
  /\ prev_nonsticky' = prev_nonsticky \ {event_name}
  /\ UNCHANGED <<events_prev, run>>

\* Events.add
add(event_name, static) ==
  /\ Len(events) < MaxLen
  /\ static => Len(static_events) < MaxStatic
  /\ static_events' = IF static THEN Append(static_events, event_name)
                                ELSE static_events
  /\ events' = Append(events, event_name)
  /\ ret' = [op |-> "add"]
  /\ latched' = IF static THEN latched \cup {event_name} ELSE latched
  /\ nonsticky' = IF static THEN nonsticky ELSE nonsticky \cup {event_name}
  /\ Asserting({event_name})
  /\ lapsed' = {}
  /\ prev_nonsticky' = prev_nonsticky \ {event_name}
  /\ UNCHANGED <<events_prev, run>>

AddCall == \E e \in Reported, static \in BOOLEAN : add(e, static)

\* Events.add_from_msg
AddFromMsgCall ==
  \E msg \in Msgs :
    /\ Len(events) + Len(msg) <= MaxLen
    /\ events' = add_from_msg(events, msg)
    /\ ret' = [op |-> "add_from_msg", msg |-> msg]
    /\ nonsticky' = nonsticky \cup {msg[i].name : i \in 1..Len(msg)}
    /\ Asserting({msg[i].name : i \in 1..Len(msg)})
    /\ lapsed' = {}
    /\ prev_nonsticky' = prev_nonsticky \ {msg[i].name : i \in 1..Len(msg)}
    /\ UNCHANGED <<static_events, events_prev, latched, run>>

\* Events.clear
clear ==
  /\ events_prev' = clear_events_prev(events_prev, events)
  /\ events' = clear_events(static_events)
  /\ ret' = [op |-> "clear"]
  /\ lapsed' = prev_nonsticky
  /\ prev_nonsticky' = nonsticky
  /\ nonsticky' = {}
  /\ asserted' = {}
  /\ streak' = [e \in EventName |-> IF e \in asserted THEN streak[e] ELSE 0]
  /\ run' = [e \in DOMAIN run |-> IF e \in Range(events) THEN run[e] + 1 ELSE 0]
  /\ UNCHANGED <<static_events, latched>>

ClearCall ==
  /\ \A k \in DOMAIN events_prev : events_prev[k] < MaxTicks
  /\ clear

\* Events.any
AnyCall ==
  \E event_type \in EventTypes :
    /\ ret' = [op |-> "any", event_type |-> event_type,
               val |-> any(events, event_type)]
    /\ UNCHANGED <<tracker, history>>

\* Events.names
NamesCall ==
  /\ ret' = [op |-> "names", val |-> events]
  /\ UNCHANGED <<tracker, history>>

\* Events.__len__
LenCall ==
  /\ ret' = [op |-> "__len__", val |-> Len(events)]
  /\ UNCHANGED <<tracker, history>>

\* create_alerts() that takes the events it has answered for out of events
CreateAlertsCall_consuming ==
  \E event_types \in EventTypeLists, callback_args \in CallbackArgs :
    LET r == create_alerts(events, events_prev, event_types, callback_args)
    IN /\ ret' = [op |-> "create_alerts", event_types |-> event_types,
                  callback_args |-> callback_args,
                  raised |-> r.raised, val |-> r.val, writes |-> r.writes]
       /\ events' = IF r.val = <<>> THEN events ELSE <<>>
       /\ UNCHANGED <<static_events, events_prev, history>>

\* Events.create_alerts
CreateAlertsCall ==
  \E event_types \in EventTypeLists, callback_args \in CallbackArgs :
    LET r == create_alerts(events, events_prev, event_types, callback_args)
    IN /\ ret' = [op |-> "create_alerts", event_types |-> event_types,
                  callback_args |-> callback_args,
                  raised |-> r.raised, val |-> r.val, writes |-> r.writes]
       /\ UNCHANGED <<tracker, history>>

\* Events.to_msg
ToMsgCall ==
  /\ ret' = [op |-> "to_msg", val |-> to_msg(events)]
  /\ UNCHANGED <<tracker, history>>

Next ==
  \/ AddCall
  \/ AddFromMsgCall
  \/ ClearCall
  \/ AnyCall
  \/ CreateAlertsCall
  \/ ToMsgCall
  \/ NamesCall
  \/ LenCall

Spec == Init /\ [][Next]_vars

\* ---- comparison of alerts
\* Alert.__gt__ applied to each pair of three alerts
GtCall ==
  \E a \in AlertsCompared, b \in AlertsCompared, c \in AlertsCompared :
    /\ ret' = [op |-> "__gt__", a |-> a, b |-> b, c |-> c,
               a_gt_a |-> Alert_gt(a, a),
               a_gt_b |-> Alert_gt(a, b),
               b_gt_a |-> Alert_gt(b, a),
               b_gt_c |-> Alert_gt(b, c),
               a_gt_c |-> Alert_gt(a, c)]
    /\ UNCHANGED <<tracker, history>>

NextGt == GtCall

SpecGt == Init /\ [][NextGt]_vars

\* ---- arbitration between the driver monitoring warnings
AddDistractedCall ==
  \E e \in Distracted, static \in BOOLEAN : add(e, static)

\* the caller takes max() of the list create_alerts returned
MaxCall ==
  /\ ret.op = "create_alerts"
  /\ ~ret.raised
  /\ ret.val # <<>>
  /\ ret' = [op |-> "max", event_types |-> ret.event_types,
             alerts |-> ret.val, val |-> max_alert(ret.val)]
  /\ UNCHANGED <<tracker, history>>

NextPrio ==
  \/ AddDistractedCall
  \/ ClearCall
  \/ CreateAlertsCall
  \/ MaxCall

SpecPrio == Init /\ [][NextPrio]_vars

\* ---- half a second of reverseGear
AddReverseCall ==
  \E static \in BOOLEAN : add("reverseGear", static)

ClearLongCall ==
  /\ \A k \in DOMAIN events_prev : events_prev[k] < MaxLongTicks
  /\ clear

NextDelay ==
  \/ AddReverseCall
  \/ ClearLongCall
  \/ CreateAlertsCall

SpecDelay == Init /\ [][NextDelay]_vars

\* ---- the catalog literal
\* import of the module: the EVENTS dict display is evaluated once
LoadCall ==
  \E literal \in Literals :
    LET r == load_events(literal)
    IN /\ ret.op = "__init__"
       /\ ret' = [op |-> "load", literal |-> literal,
                  raised |-> r.raised, catalog |-> r.catalog]
       /\ UNCHANGED <<tracker, history>>

NextLoad == LoadCall

SpecLoad == Init /\ [][NextLoad]_vars

\* ================================================================= claims
\* the arguments the controller passes to callbacks: [CP, sm, metric]
GoodArgs == <<"CP", "sm", "metric">>

\* creation_delay of the alert of rule (e, c)
RuleDelay(e, c) == make_alert(EVENTS[e][c], GoodArgs).alert.creation_delay

\* the entries of a create_alerts result that are candidates for (e, c)
Candidates(val, e, c) ==
  {i \in 1..Len(val) : /\ val[i].alert_type = EVENT_NAME[e] \o "/" \o c
                       /\ val[i].event_type = c}

\* ---- C1
\* C1: an event that was added with static=True at least once is in events
\* after every later clear().
C1_StickyLatch ==
  (ret.op = "clear") => (latched \subseteq Range(events))

\* a clear() after which a latched event is active for the MaxTicks-th tick
\* in a row although the tick just ended did not assert it
C1_Witness ==
  /\ ret.op = "clear"
  /\ \E e \in latched \cap DOMAIN events_prev :
       /\ events_prev[e] >= 2
       /\ e \notin prev_nonsticky
       /\ Len(static_events) = 1
       /\ e \in Range(events)

\* ---- C2
\* C2 (as stated): an event asserted non-static in tick T and not asserted in
\* tick T+1 is, after the clear() ending tick T+1, not in events and has a
\* counter of 0.
C2_Orig ==
  (ret.op = "clear") =>
    \A e \in lapsed : e \notin Range(events) /\ Counter(e) = 0

\* C2 (amended): the same, for the events that were never added with
\* static=True.
C2_NonStickyLapse ==
  (ret.op = "clear") =>
    \A e \in lapsed \ latched : e \notin Range(events) /\ Counter(e) = 0

\* a clear() at which a catalog event, never static, lapses
C2_Witness ==
  /\ ret.op = "clear"
  /\ \E e \in (lapsed \ latched) \cap DOMAIN events_prev :
       e \notin Range(events) /\ events_prev[e] = 0

\* ---- C3
\* C3: a catalog event whose counter was 0 and that has since been asserted
\* in each of N consecutive ticks has, in the N-th of them, a counter of N-1.
C3_Counter ==
  \A e \in asserted \cap DOMAIN events_prev :
    streak[e] >= 1 => events_prev[e] = streak[e] - 1

\* the third tick in a row that asserts a catalog event
C3_Witness ==
  \E e \in asserted \cap DOMAIN events_prev :
    streak[e] >= 3 /\ events_prev[e] = streak[e] - 1

\* ---- C4
\* C4 (as stated): for an event e asserted in every tick since its counter
\* was 0, create_alerts([c]), called with the callback arguments, returns no
\* candidate for (e, c) in a tick N with DT_CTRL * N < creation_delay and
\* exactly one in a tick N with DT_CTRL * N >= creation_delay.  As in the
\* scenarios of the claim, e is the only event active.
C4_Orig ==
  (/\ ret.op = "create_alerts"
   /\ ret.callback_args = GoodArgs
   /\ Len(ret.event_types) = 1) =>
    \A e \in asserted \cap DOMAIN EVENTS :
      LET c == ret.event_types[1]
      IN (Range(events) = {e} /\ streak[e] >= 1 /\ c \in DOMAIN EVENTS[e]) =>
           Cardinality(Candidates(ret.val, e, c)) =
             (IF DT_CTRL * streak[e] >= RuleDelay(e, c) THEN 1 ELSE 0)

\* ---- C5
\* C5 (as stated): one create_alerts call never returns two candidates for
\* the same (event, event type) pair.
C5_Orig ==
  (ret.op = "create_alerts") =>
    \A i, j \in 1..Len(ret.val) :
      (/\ ret.val[i].alert_type = ret.val[j].alert_type
       /\ ret.val[i].event_type = ret.val[j].event_type) => i = j

\* ---- C6
\* rule (e, c) is eligible in the current state for the last create_alerts
Eligible(e, c) ==
  /\ e \in Range(events)
  /\ c \in Range(ret.event_types)
  /\ e \in DOMAIN EVENTS
  /\ c \in DOMAIN EVENTS[e]
  /\ DT_CTRL * (events_prev[e] + 1) >= RuleDelay(e, c)

\* C6 (as stated): create_alerts returns a candidate for (e, c) iff e is in
\* events, c was asked for, the catalog has a rule for (e, c) and
\* DT_CTRL * (events_prev[e] + 1) >= its creation_delay; every candidate
\* carries the event type and the alert_type of such a pair.  The call is
\* given the arguments the callbacks take.
C6_Orig ==
  (ret.op = "create_alerts" /\ ret.callback_args = GoodArgs) =>
    /\ \A e \in EventName, c \in ET :
         (Candidates(ret.val, e, c) # {}) <=> Eligible(e, c)
    /\ \A i \in 1..Len(ret.val) :
         \E e \in EventName, c \in ET : i \in Candidates(ret.val, e, c)

\* ---- C7
\* C7 (as stated): an event in events that the catalog has no key for raises
\* no error in create_alerts and contributes nothing: the call returns what
\* it returns for the other active events.
C7_Orig ==
  (ret.op = "create_alerts" /\ ~(Range(events) \subseteq DOMAIN EVENTS)) =>
    LET known == SelectSeq(events, LAMBDA e : e \in DOMAIN EVENTS)
        r == create_alerts(known, events_prev, ret.event_types,
                           ret.callback_args)
    IN ret.raised = r.raised /\ ret.val = r.val

\* ---- C8
\* the callback of rule (e, c) fails on the arguments of the last call
Fails(e, c) == make_alert(EVENTS[e][c], ret.callback_args).raised

\* C8 (as stated): when the callback of one rule fails during create_alerts,
\* the call still returns the eligible candidates of the other rules.
C8_Orig ==
  (/\ ret.op = "create_alerts"
   /\ Range(events) \subseteq DOMAIN EVENTS
   /\ \E e \in Range(events), c \in Range(ret.event_types) :
        c \in DOMAIN EVENTS[e] /\ Fails(e, c)) =>
    \A e \in Range(events), c \in Range(ret.event_types) :
      (Eligible(e, c) /\ ~Fails(e, c)) => Candidates(ret.val, e, c) # {}

\* ---- C9
\* C9: add_from_msg of a new tracker, fed the records to_msg returned, leaves
\* that tracker with the sender's events as a set.
C9_RoundTrip ==
  (ret.op = "to_msg") =>
    Range(add_from_msg(<<>>, ret.val)) = Range(events)

\* a to_msg over a static member, a non-static one and an event the catalog
\* has no key for
C9_Witness ==
  /\ ret.op = "to_msg"
  /\ static_events # <<>>
  /\ Range(events) # Range(static_events)
  /\ ~(Range(events) \subseteq DOMAIN EVENTS)
  /\ Range(add_from_msg(<<>>, ret.val)) = Range(events)

\* ---- C10
\* C10: any(event_type) is true iff some event in events has a catalog rule
\* for event_type.
C10_Any ==
  (ret.op = "any") =>
    (ret.val <=> \E e \in Range(events) :
                   e \in DOMAIN EVENTS /\ ret.event_type \in DOMAIN EVENTS[e])

\* any() true on account of the second entry, the first having no catalog key
C10_Witness ==
  /\ ret.op = "any"
  /\ ret.val
  /\ Len(events) = 2
  /\ events[1] \notin DOMAIN EVENTS
  /\ ret.event_type \in DOMAIN EVENTS[events[2]]

\* ---- C11
\* C11: in every reachable state each member of static_events is a member
\* of events.
C11_StaticInEvents ==
  Range(static_events) \subseteq Range(events)

\* a static event in events next to an event that add_from_msg brought in
C11_Witness ==
  /\ ret.op = "add_from_msg"
  /\ Len(ret.msg) = 1
  /\ Len(static_events) = 1
  /\ events = static_events \o <<ret.msg[1].name>>
  /\ Range(static_events) \subseteq Range(events)

\* ---- C16
\* C16: clear() sets the counter of every key of events_prev to its old value
\* plus 1 if the event was in events (however many entries it had) and to 0
\* otherwise, makes events the static_events list and leaves static_events
\* as it was.
C16_ClearPost ==
  [][(ret'.op = "clear") =>
       /\ DOMAIN events_prev' = DOMAIN events_prev
       /\ \A k \in DOMAIN events_prev :
            events_prev'[k] =
              (IF \E i \in 1..Len(events) : events[i] = k
               THEN events_prev[k] + 1 ELSE 0)
       /\ events' = static_events
       /\ static_events' = static_events]_vars

\* after a clear(): one counter at 2, the counter of a lapsed event at 0, and
\* events equal to a non-empty static_events
C16_Witness ==
  /\ ret.op = "clear"
  /\ events = static_events
  /\ static_events # <<>>
  /\ \E k \in DOMAIN events_prev : events_prev[k] = 2
  /\ \E k \in lapsed \cap DOMAIN events_prev : events_prev[k] = 0

\* ---- C17
\* C17: to_msg returns one record per entry of events, in the order of
\* events; the i-th record carries the i-th event and has a flag set for
\* exactly the event types the catalog has a rule for under that event.
C17_ToMsg ==
  (ret.op = "to_msg") =>
    /\ Len(ret.val) = Len(events)
    /\ \A i \in 1..Len(events) :
         /\ ret.val[i].name = events[i]
         /\ \A c \in ET :
              ret.val[i].flags[c] <=>
                (events[i] \in DOMAIN EVENTS /\ c \in DOMAIN EVENTS[events[i]])

\* to_msg over an event with a callback rule followed by an event the
\* catalog has no key for
C17_Witness ==
  /\ ret.op = "to_msg"
  /\ events = <<"wrongCarMode", "noAlertEvent">>
  /\ ret.val[1].flags[NO_ENTRY]
  /\ \A c \in ET : ~ret.val[2].flags[c]

\* ---- C18
\* C18: add_from_msg appends the name of each record to events, whatever the
\* flags of the record, and changes neither static_events nor events_prev;
\* an event that is not in static_events is not in events after clear().
C18_AddFromMsg ==
  [][/\ (ret'.op = "add_from_msg") =>
          /\ events' = events \o [i \in 1..Len(ret'.msg) |-> ret'.msg[i].name]
          /\ static_events' = static_events
          /\ events_prev' = events_prev
     /\ (ret'.op = "clear") =>
          \A e \in Range(events) \ Range(static_events) :
            e \notin Range(events')]_vars

\* add_from_msg of a record without flags for an event the catalog has rules
\* for, next to a static event
C18_Witness ==
  /\ ret.op = "add_from_msg"
  /\ Len(ret.msg) = 1
  /\ ret.msg[1].name \in DOMAIN EVENTS
  /\ \A c \in ET : ~ret.msg[1].flags[c]
  /\ static_events # <<>>
  /\ ret.msg[1].name \notin Range(static_events)
  /\ events = static_events \o <<ret.msg[1].name>>

\* ---- C12
\* C12: a > b for alerts holds iff a.alert_priority > b.alert_priority; it is
\* false between equal priorities (2 and 2), true for 4 over 2, irreflexive,
\* asymmetric and transitive.
C12_Gt ==
  (ret.op = "__gt__") =>
    /\ ret.a_gt_b <=> (ret.a.alert_priority > ret.b.alert_priority)
    /\ (ret.a.alert_priority = 2 /\ ret.b.alert_priority = 2) => ~ret.a_gt_b
    /\ (ret.a.alert_priority = 4 /\ ret.b.alert_priority = 2) => ret.a_gt_b
    /\ ~ret.a_gt_a
    /\ ret.a_gt_b => ~ret.b_gt_a
    /\ (ret.a_gt_b /\ ret.b_gt_c) => ret.a_gt_c

\* priorities 4, 2, 2 with two different alerts of priority 2: c > a is
\* false, a > b true, b > c false
C12_Witness ==
  /\ ret.op = "__gt__"
  /\ ret.a.alert_priority = HIGH
  /\ ret.b.alert_priority = LOW
  /\ ret.c.alert_priority = LOW
  /\ ret.b # ret.c
  /\ ret.a_gt_b
  /\ ~ret.b_gt_a
  /\ ~ret.b_gt_c
  /\ ret.a_gt_c

\* ---- C13
\* C13: when the two events active in a tick both have an eligible rule for
\* the event type asked for, one of priority LOW and one of priority HIGH,
\* create_alerts returns a candidate for each and max() of the result is the
\* one of priority HIGH, in whichever order the events were added.
C13_MaxHigh ==
  (ret.op = "max" /\ Len(ret.event_types) = 1) =>
    \A lo \in DOMAIN EVENTS, hi \in DOMAIN EVENTS :
      LET c == ret.event_types[1]
      IN (/\ Range(events) = {lo, hi}
          /\ Eligible(lo, c)
          /\ Eligible(hi, c)
          /\ EVENTS[lo][c].kind = "Alert"
          /\ EVENTS[hi][c].kind = "Alert"
          /\ EVENTS[lo][c].alert.alert_priority = LOW
          /\ EVENTS[hi][c].alert.alert_priority = HIGH) =>
           /\ Candidates(ret.alerts, lo, c) # {}
           /\ Candidates(ret.alerts, hi, c) # {}
           /\ ret.val.alert_priority = HIGH
           /\ ret.val.alert_type = EVENT_NAME[hi] \o "/" \o c

\* the LOW event added before the HIGH one, both returned, HIGH selected
C13_Witness ==
  /\ ret.op = "max"
  /\ events = <<"preDriverDistracted", "driverDistracted">>
  /\ ret.event_types = <<WARNING>>
  /\ Len(ret.alerts) = 2
  /\ ret.alerts[1].alert_priority = LOW
  /\ ret.alerts[2].alert_priority = HIGH
  /\ ret.val = ret.alerts[2]

\* ---- C19
\* two rules of the literal are written for the same (event, event type)
HasDuplicateRule(literal) ==
  \E i, k \in 1..Len(literal) :
    \E j \in 1..Len(literal[i].rules), l \in 1..Len(literal[k].rules) :
      /\ <<i, j>> # <<k, l>>
      /\ literal[i].event = literal[k].event
      /\ literal[i].rules[j].event_type = literal[k].rules[l].event_type

\* C19 (as stated): a catalog written with two rules for the same (event,
\* event type) pair is rejected when it is loaded.
C19_Orig ==
  (ret.op = "load" /\ HasDuplicateRule(ret.literal)) => ret.raised

\* ---- C14
\* C14 (as stated): for an event that has been asserted in every tick since
\* its counter was 0, the first tick in which create_alerts returns its alert
\* is the same for every event type it has a rule for: in each tick the rule
\* for one event type is returned iff the rule for another is.
C14_Orig ==
  (ret.op = "create_alerts" /\ ret.callback_args = GoodArgs) =>
    \A e \in asserted \cap DOMAIN EVENTS :
      (Range(events) = {e} /\ streak[e] >= 1) =>
        \A c1, c2 \in Range(ret.event_types) \cap DOMAIN EVENTS[e] :
          (Candidates(ret.val, e, c1) # {}) <=>
            (Candidates(ret.val, e, c2) # {})

\* C14 (amended): the rules of one event are gated on one counter, each
\* against its own creation_delay: when create_alerts returns the rule of e
\* for one event type it returns every requested rule of e whose
\* creation_delay is not larger.
C14_OneCounter ==
  (ret.op = "create_alerts") =>
    \A e \in Range(events) \cap DOMAIN EVENTS :
      \A c1, c2 \in Range(ret.event_types) \cap DOMAIN EVENTS[e] :
        (/\ RuleDelay(e, c1) <= RuleDelay(e, c2)
         /\ Candidates(ret.val, e, c2) # {}) =>
          Candidates(ret.val, e, c1) # {}

\* the first tick in which the delayed rule of reverseGear is returned, next
\* to its undelayed rule
C14_Witness ==
  /\ ret.op = "create_alerts"
  /\ ret.event_types = <<PERMANENT, NO_ENTRY>>
  /\ "reverseGear" \in Range(events)
  /\ events_prev["reverseGear"] = 49
  /\ Candidates(ret.val, "reverseGear", PERMANENT) # {}
  /\ Candidates(ret.val, "reverseGear", NO_ENTRY) # {}

\* ---- C15
\* C15: when create_alerts returns a candidate for (e, c), e is in events and
\* was in events at each of the K-1 clears before, for a K with
\* DT_CTRL * K >= the creation_delay of the rule; a clear that does not find
\* e in events starts the count again.
C15_ContinuousActivity ==
  (ret.op = "create_alerts") =>
    \A e \in DOMAIN EVENTS, c \in ET :
      (Candidates(ret.val, e, c) # {}) =>
        /\ e \in Range(events)
        /\ DT_CTRL * (run[e] + 1) >= RuleDelay(e, c)

\* the delayed rule of reverseGear returned in the 50th tick of activity
C15_Witness ==
  /\ ret.op = "create_alerts"
  /\ run["reverseGear"] + 1 = 50
  /\ "reverseGear" \in Range(events)
  /\ Candidates(ret.val, "reverseGear", PERMANENT) # {}

\* ---- C20
\* the catalog Alert objects a create_alerts call wrote to
CatalogObjects(r) ==
  {r.writes[i].slot : i \in {j \in DOMAIN r.writes : r.writes[j].kind = "Alert"}}

\* C20 (as stated): alert_type and event_type of an Alert object are written
\* once: of two create_alerts calls in a row, the later one writes to no
\* catalog Alert the earlier one wrote to.
C20_Orig ==
  [][(ret.op = "create_alerts" /\ ret'.op = "create_alerts") =>
       CatalogObjects(ret) \cap CatalogObjects(ret') = {}]_vars

\* C20 (amended): every write create_alerts makes to an Alert sets its
\* alert_type to "<event name>/<event type>" and its event_type to the event
\* type of the rule the Alert is held under, so the derived fields of an
\* Alert never change once they are set; the write leaves the priority and
\* the creation_delay of a catalog Alert as the catalog gives them, and
\* every alert returned was written by the call that returns it.
C20_SameValues ==
  (ret.op = "create_alerts") =>
    /\ \A i \in DOMAIN ret.writes :
         LET w == ret.writes[i]
             rule == EVENTS[w.slot[1]][w.slot[2]]
         IN /\ w.alert.alert_type = EVENT_NAME[w.slot[1]] \o "/" \o w.slot[2]
            /\ w.alert.event_type = w.slot[2]
            /\ (rule.kind = "Alert") =>
                 /\ w.alert.alert_priority = rule.alert.alert_priority
                 /\ w.alert.creation_delay = rule.alert.creation_delay
    /\ \A k \in DOMAIN ret.val :
         \E i \in DOMAIN ret.writes : ret.writes[i].alert = ret.val[k]

\* one call that wrote to a catalog Alert and to an Alert a callback built
C20_Witness ==
  /\ ret.op = "create_alerts"
  /\ ~ret.raised
  /\ \E i, j \in DOMAIN ret.writes :
       /\ ret.writes[i].kind = "Alert"
       /\ ret.writes[j].kind = "callable"

\* ---- C21
\* the operations that only answer a question
Queries == {"any", "create_alerts", "to_msg", "names", "__len__"}

\* C21: a call of create_alerts, any, to_msg, names or __len__ leaves events,
\* static_events and every counter of events_prev as they were, whatever it
\* returns and whether or not it raises.
C21_QueriesReadOnly ==
  [][(ret'.op \in Queries) => UNCHANGED tracker]_vars

\* create_alerts has returned an alert of an event that is static and in its
\* second tick, and the event, its latch and its counter are still there
C21_Witness ==
  /\ ret.op = "create_alerts"
  /\ ret.val # <<>>
  /\ \E e \in Range(static_events) \cap DOMAIN events_prev :
       /\ e \in Range(events)
       /\ events_prev[e] >= 1
       /\ \E c \in ET : Candidates(ret.val, e, c) # {}

\* ---- C22
\* C22: when create_alerts([c]) returns at least one alert, any(c) is True in
\* the same state: create_alerts finds its alerts under the rules any looks
\* for and only adds the creation delay. The same holds for each event type
\* of a longer request that an alert was returned for.
C22_ResolveImpliesAny ==
  (ret.op = "create_alerts") =>
    \A i \in DOMAIN ret.val : any(events, ret.val[i].event_type)

\* create_alerts([c]) has returned an alert while another active event has a
\* rule that any() sees and the creation delay still withholds
C22_Witness ==
  /\ ret.op = "create_alerts"
  /\ Len(ret.event_types) = 1
  /\ ret.val # <<>>
  /\ any(events, ret.event_types[1])
  /\ any(events, PERMANENT)
  /\ create_alerts(events, events_prev, <<PERMANENT>>, GoodArgs).val = <<>>
====
